---- MODULE Spec2Model ----
(***************************************************************************)
(* A model of the book catalog of sesamejw/meboook: the writers' dashboard *)
(* (src/components/Dashboard.tsx), the book form (BookForm.tsx, the        *)
(* handleSubmit of lines 454-520) and the services they call.              *)
(*                                                                         *)
(* Text is a sequence of one-character strings, so that trim(),            *)
(* toLowerCase(), includes() and parseFloat() are computed as JavaScript   *)
(* computes them.  Money is counted in hundredths.  An optional value is   *)
(* the empty set (null / undefined) or a singleton.  The empty string ''   *)
(* of a URL column is the locator 0.                                       *)
(***************************************************************************)
EXTENDS Integers, Sequences, FiniteSets, TLC

\* ------------------------------------------------------------- bounds
MaxBooks == 2
MaxOps == 3
MaxTime == 2
MaxListed == 3

\* ------------------------------------------------------------- text
DigitChars == <<"0", "1", "2", "3", "4", "5", "6", "7", "8", "9">>

Digits == {DigitChars[i] : i \in DOMAIN DigitChars}

DigitVal(ch) == (CHOOSE i \in DOMAIN DigitChars : DigitChars[i] = ch) - 1

IsSpace(ch) == ch = " "

RECURSIVE DropSpacesLeft(_)
DropSpacesLeft(s) ==
    IF Len(s) > 0 /\ IsSpace(s[1]) THEN DropSpacesLeft(Tail(s)) ELSE s

RECURSIVE DropSpacesRight(_)
DropSpacesRight(s) ==
    IF Len(s) > 0 /\ IsSpace(s[Len(s)])
    THEN DropSpacesRight(SubSeq(s, 1, Len(s) - 1))
    ELSE s

\* String.prototype.trim
trim(s) == DropSpacesRight(DropSpacesLeft(s))

LowerChar(ch) == CASE ch = "A" -> "a" [] ch = "B" -> "b" [] OTHER -> ch

\* String.prototype.toLowerCase
toLowerCase(s) == [i \in 1..Len(s) |-> LowerChar(s[i])]

\* String.prototype.includes
includes(s, t) ==
    \E i \in 0..(Len(s) - Len(t)) : SubSeq(s, i + 1, i + Len(t)) = t

RECURSIVE DigitRun(_, _)
DigitRun(s, i) ==
    IF i <= Len(s) /\ s[i] \in Digits THEN 1 + DigitRun(s, i + 1) ELSE 0

RECURSIVE DigitsValue(_, _, _)
DigitsValue(s, i, n) ==
    IF n = 0 THEN 0 ELSE DigitsValue(s, i, n - 1) * 10 + DigitVal(s[i + n - 1])

\* parseFloat on the texts a number input can hold, in hundredths:
\* an optional sign, digits, an optional fraction; NaN without any digit.
parseFloat(s) ==
    LET t == DropSpacesLeft(s)
        neg == Len(t) >= 1 /\ t[1] = "-"
        start == IF neg THEN 2 ELSE 1
        n1 == DigitRun(t, start)
        dot == start + n1 <= Len(t) /\ t[start + n1] = "."
        n2 == IF dot THEN DigitRun(t, start + n1 + 1) ELSE 0
        frac == IF n2 = 0 THEN 0
                ELSE IF n2 = 1 THEN DigitsValue(t, start + n1 + 1, 1) * 10
                ELSE DigitsValue(t, start + n1 + 1, 2)
        mag == DigitsValue(t, start, n1) * 100 + frac
    IN  IF n1 + n2 = 0 THEN [nan |-> TRUE, val |-> 0]
        ELSE [nan |-> FALSE, val |-> IF neg THEN 0 - mag ELSE mag]

isNaN(p) == p.nan

\* the decimal digits of a natural number
RECURSIVE NatToString(_)
NatToString(n) ==
    IF n < 10 THEN <<DigitChars[n + 1]>>
    ELSE NatToString(n \div 10) \o <<DigitChars[(n % 10) + 1]>>

\* Number.prototype.toString of a price (in hundredths): no fraction when it
\* is whole, else the fraction without a trailing zero
toString(n) ==
    LET whole == NatToString(n \div 100)
        cents == n % 100
    IN  IF cents = 0 THEN whole
        ELSE IF cents % 10 = 0 THEN whole \o <<".", DigitChars[(cents \div 10) + 1]>>
        ELSE whole \o <<".", DigitChars[(cents \div 10) + 1], DigitChars[(cents % 10) + 1]>>

\* ------------------------------------------------------------- options
None == {}

Some(v) == {v}

The(o) == CHOOSE v \in o : TRUE

\* ------------------------------------------------------------- data
Users == {"u1", "u2"}

NoUser == "none"

Clients == {"c1", "c2"}

\* the option values of the category select
commonCategories == {"Fiction", "Drama"}

BookIds == 1..MaxBooks

\* '' in image_url / file_url
NoUrl == [kind |-> "none", n |-> 0, at |-> 0]

\* the id an upload is associated with: the id of the book that is edited
BookId(id) == [kind |-> "book", n |-> id]

\* `temp-${Date.now()}`, the id for the uploads of a new book
TempId(t) == [kind |-> "temp", n |-> t]

NoId == [kind |-> "none", n |-> 0]

\* the key, and with it the public URL, of an upload: {bookId}-{timestamp}
\* in the bucket of its namespace
StorageKey(tempId, t) == [kind |-> tempId.kind, n |-> tempId.n, at |-> t]

Buckets == {"book-images", "book-files"}

\* the files a user can pick: a File has a name and a size
ImageFile == [name |-> <<"c">>, size |-> 1]

BookFile == [name |-> <<"f">>, size |-> 7]

\* what the user typed (name, category, price and description are text)
\* and picked (a cover image, a book file)
Typed(name, category, price, description) ==
    [name |-> name, category |-> category, price |-> price, description |-> description]

Entered(fd, img, file) == [formData |-> fd, imageFile |-> img, bookFile |-> file]

FormInputs ==
    { Entered(Typed(<<" ", "a">>, "Fiction", <<"5">>, <<"A", "b">>),
              Some(ImageFile), Some(BookFile)),
      Entered(Typed(<<"B">>, "Drama", <<"1", "2", ".", "5">>, <<"b", " ">>),
              Some(ImageFile), None),
      Entered(Typed(<<"B">>, "Drama", <<"1", "2", ".", "5">>, <<"b", " ">>),
              None, Some(BookFile)),
      Entered(Typed(<<" ", "a">>, "Fiction", <<"5">>, <<"A", "b">>),
              None, None),
      Entered(Typed(<<"a">>, "Fiction", <<"-", "1">>, <<"b">>),
              Some(ImageFile), None),
      Entered(Typed(<<" ">>, "Fiction", <<"5">>, <<"b">>),
              None, Some(BookFile)) }

\* the form as the effect on [book, show] fills it for the book it edits
Prefilled(book) ==
    Typed(book.name, book.category, toString(book.price), book.description)

\* the limits the inputs of the form declare
NameMaxLength == 255

DescriptionMaxLength == 1000

\* max="99999.99", in hundredths
PriceMax == 9999999

\* the constraint validation without the required of the Book File input
checkValidityFileOptional(book, input) ==
    LET fd == input.formData
        price == parseFloat(fd.price)
    IN  /\ fd.name # <<>> /\ Len(fd.name) <= NameMaxLength
        /\ fd.category \in commonCategories
        /\ ~isNaN(price) /\ price.val >= 0 /\ price.val <= PriceMax
        /\ fd.description # <<>> /\ Len(fd.description) <= DescriptionMaxLength

\* the constraint validation the browser runs before the submit event of
\* <Form onSubmit={handleSubmit}>: required and maxLength of name and
\* description, required of the category select, required, min and max of
\* the price, required={!book} of the Book File input
checkValidity(book, input) ==
    LET fd == input.formData
        price == parseFloat(fd.price)
    IN  /\ fd.name # <<>> /\ Len(fd.name) <= NameMaxLength
        /\ fd.category \in commonCategories
        /\ ~isNaN(price) /\ price.val >= 0 /\ price.val <= PriceMax
        /\ fd.description # <<>> /\ Len(fd.description) <= DescriptionMaxLength
        /\ book = None => input.bookFile # None

EmptyFormData == [name |-> <<>>, category |-> "", price |-> <<>>, description |-> <<>>]

\* error messages
PriceError == "Please enter a valid price"

LoadBooksError == "Failed to load books. Please try again."

DeleteError == "Failed to delete book. Please try again."

Failures ==
    {"Unauthenticated", "NotFound", "Forbidden", "StorageFailure", "RepositoryFailure"}

\* ------------------------------------------------------------- repository
\* CatalogRepository.insert: the row a create writes; the repository sets
\* id, user_id and both timestamps
InsertRow(id, data, user, t) ==
    [id |-> id, name |-> data.name, category |-> data.category,
     price |-> data.price, description |-> data.description,
     image_url |-> data.image_url, file_url |-> data.file_url,
     file_name |-> data.file_name, file_size |-> data.file_size,
     user_id |-> user, created_at |-> t, updated_at |-> t]

\* CatalogRepository.updateById: the columns of the patch replace the row's,
\* updated_at is bumped, every other column stays
UpdateRow(row, patch, t) ==
    [k \in DOMAIN row |->
        IF k = "updated_at" THEN t
        ELSE IF k \in DOMAIN patch THEN patch[k]
        ELSE row[k]]

\* getBookById that answers for the books of the first user only
getBookByIdOwned(d, id) ==
    IF id \in DOMAIN d /\ d[id].user_id = "u1" THEN Some(d[id]) ELSE None

\* bookService.getBookById / getPublic: the row, or nothing (NotFound)
getBookById(d, id) == IF id \in DOMAIN d THEN Some(d[id]) ELSE None

\* the sequences a set of ids can be listed in
Listings(S) ==
    {f \in [1..Cardinality(S) -> S] : \A i, j \in DOMAIN f : f[i] = f[j] => i = j}

\* .order('created_at', { ascending: false }): any listing with created_at
\* descending; rows with equal created_at come in either order
OrderedByCreatedDesc(d, S) ==
    {[i \in DOMAIN f |-> d[f[i]]] : f \in
        {g \in Listings(S) :
            \A i, j \in DOMAIN g : i < j => d[g[i]].created_at >= d[g[j]].created_at}}

\* CatalogRepository.listByOwner: .eq('user_id', user.id)
OwnedIds(d, u) == {id \in DOMAIN d : d[id].user_id = u}

\* listByOwner without .eq('user_id', user.id)
listByOwnerUnscoped(d, u) == OrderedByCreatedDesc(d, DOMAIN d)

listByOwner(d, u) == OrderedByCreatedDesc(d, OwnedIds(d, u))

\* CatalogRepository.listAll (the public scope)
listAll(d) == OrderedByCreatedDesc(d, DOMAIN d)

\* ------------------------------------------------------------- query
\* BookFilters: each field is optional
NoFilters == [search |-> None, category |-> None, minPrice |-> None, maxPrice |-> None]

\* if (filters.search): defined and not ''
TruthyText(o) == o # None /\ The(o) # <<>>

\* if (filters.category): defined and not ''
TruthyOption(o) == o # None /\ The(o) # ""

\* the filtering with a search that looks at the name only
MatchesFiltersNameOnly(book, f) ==
    /\ TruthyText(f.search) =>
          includes(toLowerCase(book.name), toLowerCase(The(f.search)))
    /\ TruthyOption(f.category) => book.category = The(f.category)
    /\ f.minPrice # None => book.price >= The(f.minPrice)
    /\ f.maxPrice # None => book.price <= The(f.maxPrice)

\* loadBooks, the client-side filtering of the fetched rows
MatchesFilters(book, f) ==
    /\ TruthyText(f.search) =>
          \/ includes(toLowerCase(book.name), toLowerCase(The(f.search)))
          \/ includes(toLowerCase(book.description), toLowerCase(The(f.search)))
    /\ TruthyOption(f.category) => book.category = The(f.category)
    /\ f.minPrice # None => book.price >= The(f.minPrice)
    /\ f.maxPrice # None => book.price <= The(f.maxPrice)

ApplyFilters(rows, f) ==
    LET Keep(book) == MatchesFilters(book, f) IN SelectSeq(rows, Keep)

\* CatalogQueryEngine.query in the scope OwnedBy(u): what loadBooks computes
QueryOwned(d, u, f) == {ApplyFilters(rows, f) : rows \in listByOwner(d, u)}

\* CatalogQueryEngine.query in the scope Public
QueryPublic(d, f) == {ApplyFilters(rows, f) : rows \in listAll(d)}

\* [key]: value || undefined, for the text of the search box
TextOrUndefined(value) == IF value = <<>> THEN None ELSE Some(value)

\* [key]: value || undefined, for the value of the category select
OptionOrUndefined(value) == IF value = "" THEN None ELSE Some(value)

\* [key]: value || undefined, for parseFloat(e.target.value) of a price box
NumberOrUndefined(p) == IF isNaN(p) \/ p.val = 0 THEN None ELSE Some(p.val)

\* handleFilterChange: [key]: value || undefined
OrUndefined(key, value) ==
    CASE key = "search" -> TextOrUndefined(value)
      [] key = "category" -> OptionOrUndefined(value)
      [] OTHER -> NumberOrUndefined(value)

\* ------------------------------------------------------------- statistics
RECURSIVE SumPrice(_)
SumPrice(rows) == IF rows = <<>> THEN 0 ELSE Head(rows).price + SumPrice(Tail(rows))

\* bookService.getBookStats: an aggregation over the owner's rows
StatsOf(rows) ==
    [totalBooks |-> Len(rows),
     totalValue |-> SumPrice(rows),
     categoriesCount |-> Cardinality({rows[i].category : i \in DOMAIN rows})]

getBookStats(d, u) == StatsOf(CHOOSE rows \in listByOwner(d, u) : TRUE)

NoStats == [totalBooks |-> 0, totalValue |-> 0, categoriesCount |-> 0]

\* ------------------------------------------------------------- services
\* createBook over a repository that gives a new row the smallest id no
\* row has now
createBookReusingId(d, actor, data, id, t) ==
    LET free == CHOOSE i \in 1..id : i \notin DOMAIN d /\ \A j \in 1..(i - 1) : j \in DOMAIN d
    IN  IF actor = NoUser THEN [outcome |-> "Unauthenticated", db |-> d]
        ELSE [outcome |-> "ok", db |-> d @@ (free :> InsertRow(free, data, actor, t))]

\* bookService.createBook: requires an actor; inserts the row for that actor
createBook(d, actor, data, id, t) ==
    IF actor = NoUser THEN [outcome |-> "Unauthenticated", db |-> d]
    ELSE [outcome |-> "ok", db |-> d @@ (id :> InsertRow(id, data, actor, t))]

\* updateBook without the ownership check
updateBookAnyActor(d, actor, data, t) ==
    IF actor = NoUser THEN [outcome |-> "Unauthenticated", db |-> d]
    ELSE IF data.id \notin DOMAIN d THEN [outcome |-> "NotFound", db |-> d]
    ELSE [outcome |-> "ok", db |-> [d EXCEPT ![data.id] = UpdateRow(@, data, t)]]

\* updateBook as an upsert: the row is written for the calling actor
updateBookUpsert(d, actor, data, t) ==
    IF actor = NoUser THEN [outcome |-> "Unauthenticated", db |-> d]
    ELSE IF data.id \notin DOMAIN d THEN [outcome |-> "NotFound", db |-> d]
    ELSE [outcome |-> "ok",
          db |-> [d EXCEPT ![data.id] =
                    UpdateRow(@, [user_id |-> actor] @@ data, t)]]

\* bookService.updateBook: requires an actor, an existing row and ownership
updateBook(d, actor, data, t) ==
    IF actor = NoUser THEN [outcome |-> "Unauthenticated", db |-> d]
    ELSE IF data.id \notin DOMAIN d THEN [outcome |-> "NotFound", db |-> d]
    ELSE IF d[data.id].user_id # actor THEN [outcome |-> "Forbidden", db |-> d]
    ELSE [outcome |-> "ok", db |-> [d EXCEPT ![data.id] = UpdateRow(@, data, t)]]

\* bookService.deleteBook: requires an actor, an existing row and ownership
deleteBook(d, actor, id) ==
    IF actor = NoUser THEN [outcome |-> "Unauthenticated", db |-> d]
    ELSE IF id \notin DOMAIN d THEN [outcome |-> "NotFound", db |-> d]
    ELSE IF d[id].user_id # actor THEN [outcome |-> "Forbidden", db |-> d]
    ELSE [outcome |-> "ok", db |-> [i \in DOMAIN d \ {id} |-> d[i]]]

\* what the caller sees: the service's own refusal, or the failure of the
\* metadata write it then issues
Outcome(res, fails) ==
    IF res.outcome # "ok" THEN res.outcome
    ELSE IF fails THEN "RepositoryFailure" ELSE "ok"

\* AssetStore.delete that refuses a locator the bucket does not hold
deleteAssetStrict(objects, key) ==
    IF key \in objects THEN [outcome |-> "ok", objects |-> objects \ {key}]
    ELSE [outcome |-> "NotFound", objects |-> objects]

\* AssetStore.delete(locator) on the objects of one bucket: the locator is
\* gone afterwards, whether the bucket held it or not
deleteAsset(objects, key) == [outcome |-> "ok", objects |-> objects \ {key}]

\* AssetStore.delete, best effort: the locators of `gone` that are released
\* when the delete of each succeeds (okImage, okFile)
Released(a, gone, okImage, okFile) ==
    [b \in Buckets |->
        IF b = "book-images" /\ okImage THEN deleteAsset(a[b], gone.image_url).objects
        ELSE IF b = "book-files" /\ okFile THEN deleteAsset(a[b], gone.file_url).objects
        ELSE a[b]]

\* asset deletes for the book file only: a cover that is replaced or whose
\* book is deleted stays
DeleteCallsFileOnly(gone, imageUrl, fileUrl) ==
    {[bucket |-> "book-files", key |-> gone.file_url] :
        x \in IF gone.file_url \in {NoUrl, fileUrl} THEN {} ELSE {1}}

\* the AssetStore.delete calls for the assets of `gone` that the row no
\* longer references once it has image_url `imageUrl` and file_url `fileUrl`
DeleteCalls(gone, imageUrl, fileUrl) ==
    {[bucket |-> "book-images", key |-> gone.image_url] :
        x \in IF gone.image_url \in {NoUrl, imageUrl} THEN {} ELSE {1}}
    \cup
    {[bucket |-> "book-files", key |-> gone.file_url] :
        x \in IF gone.file_url \in {NoUrl, fileUrl} THEN {} ELSE {1}}

\* ------------------------------------------------------------- state
VARIABLES
    db,        \* the books table: id -> row, for the ids that exist
    assets,    \* the objects each storage bucket holds now
    stored,    \* every object a bucket has ever stored (history)
    nextId,    \* the next id the table assigns
    now,       \* Date.now(), the time of the clients' clocks
    clock,     \* the repository's time
    session,   \* per client, the signed-in user or NoUser
    dash,      \* per client, the state of the Dashboard component
    form,      \* per client, the state of the BookForm component and of
               \* the handleSubmit in flight
    last,      \* the operation the last step completed (history)
    asked,     \* per client, the filter the user has entered (history)
    page,      \* per client, the state of the DownloadPage component
    ops        \* operations begun so far

vars ==
    <<db, assets, stored, nextId, now, clock, session, dash, form, last, asked,
      page, ops>>

backend == <<db, assets, stored, nextId, now, clock>>

NoOp ==
    [client |-> "", op |-> "none", outcome |-> "", id |-> 0, issued |-> {},
     absent |-> {}]

\* the operation a step completed, with the asset deletes it issued and,
\* of these, the ones for a locator its bucket did not hold
DoneIssuing(c, op, outcome, id, calls) ==
    [client |-> c, op |-> op, outcome |-> outcome, id |-> id, issued |-> calls,
     absent |-> {call \in calls : call.key \notin assets[call.bucket]}]

Done(c, op, outcome, id) == DoneIssuing(c, op, outcome, id, {})

\* BookForm: useState initial values; no handleSubmit in flight
IdleForm ==
    [pc |-> "idle", loading |-> FALSE, error |-> "",
     formData |-> EmptyFormData, imageFile |-> None, bookFile |-> None,
     closed |-> FALSE,
     book |-> None, tempId |-> NoId, price |-> 0,
     imageUrl |-> NoUrl, fileUrl |-> NoUrl, fileName |-> <<>>, fileSize |-> 0]

\* DownloadPage: the route /download/:bookId is not open
NoPage ==
    [open |-> FALSE, bookId |-> 0, book |-> None, loading |-> FALSE,
     downloading |-> FALSE, error |-> ""]

\* Dashboard: the state after mounting over an empty table; pending holds
\* the filters of the loadBooks calls whose query has not answered yet
InitDash ==
    [books |-> <<>>, stats |-> NoStats, filters |-> NoFilters, pending |-> {},
     error |-> LoadBooksError,
     showBookForm |-> FALSE, editingBook |-> None,
     showDeleteModal |-> FALSE, bookToDelete |-> None]

Init ==
    /\ db = <<>>
    /\ assets = [b \in Buckets |-> {}]
    /\ stored = [b \in Buckets |-> {}]
    /\ nextId = 1
    /\ now = 1
    /\ clock = 1
    /\ session = [c \in Clients |-> "u1"]
    /\ dash = [c \in Clients |-> InitDash]
    /\ form = [c \in Clients |-> IdleForm]
    /\ last = NoOp
    /\ asked = [c \in Clients |-> NoFilters]
    /\ page = [c \in Clients |-> NoPage]
    /\ ops = 0

\* ------------------------------------------------------------- dashboard
\* loadBooks: without a user it returns at once; otherwise books is set to
\* the filtered rows and the next statement, setBooks(booksData), names an
\* undeclared variable: the ReferenceError is caught and sets the error
LoadBooks(dc, user, rows) ==
    IF user = NoUser THEN dc
    ELSE [dc EXCEPT !.books = rows, !.error = LoadBooksError]

\* loadStats: setStats(await bookService.getBookStats()); a failure is only
\* logged
LoadStats(dc, d, user) ==
    IF user = NoUser THEN dc
    ELSE [dc EXCEPT !.stats = getBookStats(d, user)]

\* the results loadBooks can fetch for this dashboard
Fetched(dc, d, user) ==
    IF user = NoUser THEN {<<>>} ELSE QueryOwned(d, user, dc.filters)

\* loadInitialData: Promise.all([loadBooks(), loadCategories(), loadStats()])
LoadInitialData(dc, d, user, rows) == LoadStats(LoadBooks(dc, user, rows), d, user)

\* handleBookFormClose
CloseForm(dc) == [dc EXCEPT !.showBookForm = FALSE, !.editingBook = None]

\* handleBookSaved that only closes the form
HandleBookSavedNoReload(dc, d, user, rows) == CloseForm(dc)

\* handleBookSaved: loadInitialData(); handleBookFormClose()
HandleBookSaved(dc, d, user, rows) == CloseForm(LoadInitialData(dc, d, user, rows))

NoModal(c) == ~dash[c].showBookForm /\ ~dash[c].showDeleteModal

\* the Dashboard is rendered only for a signed-in user (ProtectedRoute)
Mounted(c) == session[c] # NoUser

\* handleAddBook (no book) / handleEditBook(book): the book the form edits
OpenForm(dc, book) == [dc EXCEPT !.editingBook = book, !.showBookForm = TRUE]

\* the books the form can be opened for: none (Add Book) or a listed book
\* (Edit); an open form keeps its book
Editable(c) ==
    IF dash[c].showBookForm THEN {dash[c].editingBook}
    ELSE IF dash[c].showDeleteModal THEN {}
    ELSE {None} \cup {Some(dash[c].books[i]) : i \in DOMAIN dash[c].books}

\* handleDeleteBook(book)
OpenDeleteModal(dc, book) ==
    [dc EXCEPT !.bookToDelete = Some(book), !.showDeleteModal = TRUE]

\* the books Delete can be confirmed for: a listed book, or the book of the
\* modal that is open
Deletable(c) ==
    IF dash[c].showDeleteModal THEN dash[c].bookToDelete
    ELSE IF dash[c].showBookForm THEN {}
    ELSE {dash[c].books[i] : i \in DOMAIN dash[c].books}

\* the form's effect on [book, show] resets its fields; the values a
\* handleSubmit in flight has captured stay with it
ResetFields(f) ==
    IF f.pc = "idle"
    THEN [f EXCEPT !.formData = EmptyFormData, !.imageFile = None,
                   !.bookFile = None, !.error = ""]
    ELSE [f EXCEPT !.closed = TRUE, !.error = ""]

HandleBookFormClose(c) ==
    /\ Mounted(c) /\ dash[c].showBookForm
    /\ dash' = [dash EXCEPT ![c] = CloseForm(@)]
    /\ form' = [form EXCEPT ![c] = ResetFields(@)]
    /\ last' = NoOp
    /\ UNCHANGED <<backend, session, asked, page, ops>>

\* the Cancel button of the delete modal: setShowDeleteModal(false)
CancelDelete(c) ==
    /\ Mounted(c) /\ dash[c].showDeleteModal
    /\ dash' = [dash EXCEPT ![c].showDeleteModal = FALSE]
    /\ last' = NoOp
    /\ UNCHANGED <<backend, session, asked, page, form, ops>>

\* ------------------------------------------------------------- book form
OpOf(f) == IF f.book = None THEN "create" ELSE "update"

IdOf(f) == IF f.book = None THEN 0 ELSE The(f.book).id

\* handleSubmit's finally that does not run: a failed submit leaves the
\* loading flag set
FailedStillLoading(f, message) ==
    [f EXCEPT !.pc = "idle", !.error = message,
              !.closed = FALSE,
              !.formData = IF f.closed THEN EmptyFormData ELSE @,
              !.imageFile = IF f.closed THEN None ELSE @,
              !.bookFile = IF f.closed THEN None ELSE @,
              !.book = None, !.tempId = NoId, !.price = 0, !.imageUrl = NoUrl,
              !.fileUrl = NoUrl, !.fileName = <<>>, !.fileSize = 0]

\* the catch and finally of handleSubmit: setError(err.message),
\* setLoading(false); the closure's locals are gone
Failed(f, message) ==
    [f EXCEPT !.pc = "idle", !.loading = FALSE, !.error = message,
              !.closed = FALSE,
              !.formData = IF f.closed THEN EmptyFormData ELSE @,
              !.imageFile = IF f.closed THEN None ELSE @,
              !.bookFile = IF f.closed THEN None ELSE @,
              !.book = None, !.tempId = NoId, !.price = 0, !.imageUrl = NoUrl,
              !.fileUrl = NoUrl, !.fileName = <<>>, !.fileSize = 0]

AfterImage(f) == IF f.bookFile # None THEN "file" ELSE "write"

AfterStart(f) == IF f.imageFile # None THEN "image" ELSE AfterImage(f)

\* the form is opened for `book` (when it is not open yet), filled with
\* what the user typed and picked, and Submit is pressed: the browser
\* validates the inputs and, when they are valid, handleSubmit runs up to
\* its first await (the price check and the locals)
HandleSubmit(c, book, input) ==
    /\ Mounted(c)
    /\ book \in Editable(c)
    /\ ~form[c].loading
    /\ ops < MaxOps
    /\ ops' = ops + 1
    /\ dash' = [dash EXCEPT ![c] = OpenForm(@, book)]
    /\ LET price == parseFloat(input.formData.price)
           typed == [form[c] EXCEPT !.formData = input.formData,
                                    !.imageFile = input.imageFile,
                                    !.bookFile = input.bookFile, !.book = book]
       IN  IF ~checkValidity(book, input)
           THEN /\ form' = [form EXCEPT ![c] =
                      [@ EXCEPT !.formData = input.formData,
                                !.imageFile = input.imageFile,
                                !.bookFile = input.bookFile]]
                /\ last' = Done(c, OpOf(typed), "ValidationError", IdOf(typed))
           ELSE IF isNaN(price) \/ price.val < 0
           THEN /\ form' = [form EXCEPT ![c] = Failed(typed, PriceError)]
                /\ last' = Done(c, OpOf(typed), "ValidationError", IdOf(typed))
           ELSE /\ form' = [form EXCEPT ![c] =
                      [typed EXCEPT
                          !.loading = TRUE, !.error = "",
                          !.price = price.val,
                          !.tempId = IF book = None THEN TempId(now)
                                     ELSE BookId(The(book).id),
                          !.imageUrl = IF book = None THEN NoUrl ELSE The(book).image_url,
                          !.fileUrl = IF book = None THEN NoUrl ELSE The(book).file_url,
                          !.fileName = IF book = None THEN <<>> ELSE The(book).file_name,
                          !.fileSize = IF book = None THEN 0 ELSE The(book).file_size,
                          !.pc = AfterStart(typed)]]
                /\ last' = NoOp
    /\ UNCHANGED <<backend, session, asked, page>>

\* the values Date.now() can return in an upload: the upload falls in the
\* millisecond of the step before it or in the next one
Ticks == {t \in {now, now + 1} : t <= MaxTime}

\* uploadBookImage whose failure is not thrown: the URL is returned although
\* nothing was stored
UploadImageUnchecked(c, ok, t) ==
    /\ form[c].pc = "image"
    /\ assets' = IF ok THEN [assets EXCEPT !["book-images"] =
                                @ \cup {StorageKey(form[c].tempId, t)}]
                 ELSE assets
    /\ stored' = IF ok THEN [stored EXCEPT !["book-images"] =
                                @ \cup {StorageKey(form[c].tempId, t)}]
                 ELSE stored
    /\ now' = t
    /\ form' = [form EXCEPT ![c].imageUrl = StorageKey(form[c].tempId, t),
                            ![c].pc = AfterImage(form[c])]
    /\ last' = NoOp
    /\ UNCHANGED <<db, nextId, clock, session, asked, page, dash, ops>>

\* uploadBookImage that handleSubmit calls again when it fails: the
\* failure is logged and the submit stays at the upload
UploadImageRetried(c, ok, t) ==
    /\ form[c].pc = "image"
    /\ IF ok
       THEN /\ assets' = [assets EXCEPT !["book-images"] =
                           @ \cup {StorageKey(form[c].tempId, t)}]
            /\ stored' = [stored EXCEPT !["book-images"] =
                           @ \cup {StorageKey(form[c].tempId, t)}]
            /\ now' = t
            /\ form' = [form EXCEPT ![c].imageUrl = StorageKey(form[c].tempId, t),
                                    ![c].pc = AfterImage(form[c])]
            /\ last' = NoOp
       ELSE /\ last' = Done(c, OpOf(form[c]), "StorageFailure", IdOf(form[c]))
            /\ UNCHANGED <<assets, stored, now, form>>
    /\ UNCHANGED <<db, nextId, clock, session, asked, page, dash, ops>>

\* storageService.uploadBookImage(imageFile, tempId): stores the bytes and
\* returns the URL, or throws
UploadImage(c, ok, t) ==
    /\ form[c].pc = "image"
    /\ IF ok
       THEN /\ assets' = [assets EXCEPT !["book-images"] =
                           @ \cup {StorageKey(form[c].tempId, t)}]
            /\ stored' = [stored EXCEPT !["book-images"] =
                           @ \cup {StorageKey(form[c].tempId, t)}]
            /\ now' = t
            /\ form' = [form EXCEPT ![c].imageUrl = StorageKey(form[c].tempId, t),
                                    ![c].pc = AfterImage(form[c])]
            /\ last' = NoOp
       ELSE /\ form' = [form EXCEPT ![c] = Failed(@, "StorageFailure")]
            /\ last' = Done(c, OpOf(form[c]), "StorageFailure", IdOf(form[c]))
            /\ UNCHANGED <<assets, stored, now>>
    /\ UNCHANGED <<db, nextId, clock, session, asked, page, dash, ops>>

\* uploadBookFile whose failure is swallowed: the submit goes on to the
\* metadata write with the file it had
UploadFileSwallowed(c, ok, t) ==
    /\ form[c].pc = "file"
    /\ IF ok
       THEN /\ assets' = [assets EXCEPT !["book-files"] =
                           @ \cup {StorageKey(form[c].tempId, t)}]
            /\ stored' = [stored EXCEPT !["book-files"] =
                           @ \cup {StorageKey(form[c].tempId, t)}]
            /\ now' = t
            /\ form' = [form EXCEPT ![c].fileUrl = StorageKey(form[c].tempId, t),
                                    ![c].fileName = The(form[c].bookFile).name,
                                    ![c].fileSize = The(form[c].bookFile).size,
                                    ![c].pc = "write"]
            /\ last' = NoOp
       ELSE /\ form' = [form EXCEPT ![c].pc = "write"]
            /\ last' = Done(c, OpOf(form[c]), "StorageFailure", IdOf(form[c]))
            /\ UNCHANGED <<assets, stored, now>>
    /\ UNCHANGED <<db, nextId, clock, session, asked, page, dash, ops>>

\* uploadBookFile of which handleSubmit takes the url only, not the file
\* name and the file size
UploadFileUrlOnly(c, ok, t) ==
    /\ form[c].pc = "file"
    /\ IF ok
       THEN /\ assets' = [assets EXCEPT !["book-files"] =
                           @ \cup {StorageKey(form[c].tempId, t)}]
            /\ stored' = [stored EXCEPT !["book-files"] =
                           @ \cup {StorageKey(form[c].tempId, t)}]
            /\ now' = t
            /\ form' = [form EXCEPT ![c].fileUrl = StorageKey(form[c].tempId, t),
                                    ![c].pc = "write"]
            /\ last' = NoOp
       ELSE /\ form' = [form EXCEPT ![c] = Failed(@, "StorageFailure")]
            /\ last' = Done(c, OpOf(form[c]), "StorageFailure", IdOf(form[c]))
            /\ UNCHANGED <<assets, stored, now>>
    /\ UNCHANGED <<db, nextId, clock, session, asked, page, dash, ops>>

\* storageService.uploadBookFile(bookFile, tempId): stores the bytes and
\* returns { url, fileName, fileSize } of the file, or throws
UploadFile(c, ok, t) ==
    /\ form[c].pc = "file"
    /\ IF ok
       THEN /\ assets' = [assets EXCEPT !["book-files"] =
                           @ \cup {StorageKey(form[c].tempId, t)}]
            /\ stored' = [stored EXCEPT !["book-files"] =
                           @ \cup {StorageKey(form[c].tempId, t)}]
            /\ now' = t
            /\ form' = [form EXCEPT ![c].fileUrl = StorageKey(form[c].tempId, t),
                                    ![c].fileName = The(form[c].bookFile).name,
                                    ![c].fileSize = The(form[c].bookFile).size,
                                    ![c].pc = "write"]
            /\ last' = NoOp
       ELSE /\ form' = [form EXCEPT ![c] = Failed(@, "StorageFailure")]
            /\ last' = Done(c, OpOf(form[c]), "StorageFailure", IdOf(form[c]))
            /\ UNCHANGED <<assets, stored, now>>
    /\ UNCHANGED <<db, nextId, clock, session, asked, page, dash, ops>>

\* createData without the trim() of name and description
CreateDataUntrimmed(f) ==
    [name |-> f.formData.name, category |-> f.formData.category,
     price |-> f.price, description |-> f.formData.description,
     image_url |-> f.imageUrl, file_url |-> f.fileUrl,
     file_name |-> f.fileName, file_size |-> f.fileSize]

\* const createData: CreateBookRequest = { ... }
CreateData(f) ==
    [name |-> trim(f.formData.name), category |-> f.formData.category,
     price |-> f.price, description |-> trim(f.formData.description),
     image_url |-> f.imageUrl, file_url |-> f.fileUrl,
     file_name |-> f.fileName, file_size |-> f.fileSize]

\* updateData that carries the locators of the uploads of this submit
\* only, so that the write merges with the row as it is
UpdateDataChangedOnly(f) ==
    [k \in {"id", "name", "category", "price", "description"}
          \cup (IF f.imageFile # None THEN {"image_url"} ELSE {})
          \cup (IF f.bookFile # None THEN {"file_url", "file_name", "file_size"} ELSE {})
       |-> CASE k = "id" -> The(f.book).id
             [] k = "name" -> trim(f.formData.name)
             [] k = "category" -> f.formData.category
             [] k = "price" -> f.price
             [] k = "description" -> trim(f.formData.description)
             [] k = "image_url" -> f.imageUrl
             [] k = "file_url" -> f.fileUrl
             [] k = "file_name" -> f.fileName
             [] OTHER -> f.fileSize]

\* const updateData: UpdateBookRequest = { id: book.id, ... }
UpdateData(f) ==
    [id |-> The(f.book).id,
     name |-> trim(f.formData.name), category |-> f.formData.category,
     price |-> f.price, description |-> trim(f.formData.description),
     image_url |-> f.imageUrl, file_url |-> f.fileUrl,
     file_name |-> f.fileName, file_size |-> f.fileSize]

\* the time the repository stamps a write with: an insert may fall on the
\* instant of the write before it, an update bumps the time
Instants(c) == IF form[c].book = None THEN {clock, clock + 1} ELSE {clock + 1}

\* the metadata write of a handleSubmit that calls onSave() in its finally:
\* the dashboard is reloaded and the form closed after a failure too
WriteMetadataSavingAlways(c, fails, t, okImage, okFile) ==
    LET f == form[c]
        actor == session[c]
        res == IF f.book = None
               THEN createBook(db, actor, CreateData(f), nextId, t)
               ELSE updateBook(db, actor, UpdateData(f), t)
        id == IF f.book = None THEN nextId ELSE The(f.book).id
    IN
    /\ f.pc = "write"
    /\ IF fails \/ res.outcome # "ok"
       THEN /\ form' = [form EXCEPT ![c] = Failed(@, Outcome(res, fails))]
            /\ last' = Done(c, OpOf(f), Outcome(res, fails), IdOf(f))
            /\ \E rows \in Fetched(dash[c], db, actor) :
                 dash' = [dash EXCEPT ![c] = HandleBookSaved(@, db, actor, rows)]
            /\ UNCHANGED backend
       ELSE /\ f.book = None => nextId <= MaxBooks
            /\ db' = res.db
            /\ clock' = t
            /\ nextId' = IF f.book = None THEN nextId + 1 ELSE nextId
            /\ assets' =
                 IF f.book = None THEN assets
                 ELSE Released(assets, db[id],
                               okImage /\ db[id].image_url # f.imageUrl,
                               okFile /\ db[id].file_url # f.fileUrl)
            /\ \E rows \in Fetched(dash[c], res.db, actor) :
                 dash' = [dash EXCEPT ![c] = HandleBookSaved(@, res.db, actor, rows)]
            /\ form' = [form EXCEPT ![c] = IdleForm]
            /\ last' = DoneIssuing(c, OpOf(f), "ok", id,
                           IF f.book = None THEN {}
                           ELSE DeleteCalls(db[id], f.imageUrl, f.fileUrl))
            /\ UNCHANGED <<stored, now>>
    /\ UNCHANGED <<session, asked, page, ops>>

\* the metadata write of handleSubmit and what follows it: on success
\* onSave(), which reloads the dashboard and closes the form
WriteMetadata(c, fails, t, okImage, okFile) ==
    LET f == form[c]
        actor == session[c]
        res == IF f.book = None
               THEN createBook(db, actor, CreateData(f), nextId, t)
               ELSE updateBook(db, actor, UpdateData(f), t)
        id == IF f.book = None THEN nextId ELSE The(f.book).id
    IN
    /\ f.pc = "write"
    /\ IF fails \/ res.outcome # "ok"
       THEN /\ form' = [form EXCEPT ![c] = Failed(@, Outcome(res, fails))]
            /\ last' = Done(c, OpOf(f), Outcome(res, fails), IdOf(f))
            /\ UNCHANGED <<backend, dash>>
       ELSE /\ f.book = None => nextId <= MaxBooks
            /\ db' = res.db
            /\ clock' = t
            /\ nextId' = IF f.book = None THEN nextId + 1 ELSE nextId
            /\ assets' =
                 IF f.book = None THEN assets
                 ELSE Released(assets, db[id],
                               okImage /\ db[id].image_url # f.imageUrl,
                               okFile /\ db[id].file_url # f.fileUrl)
            /\ \E rows \in Fetched(dash[c], res.db, actor) :
                 dash' = [dash EXCEPT ![c] = HandleBookSaved(@, res.db, actor, rows)]
            /\ form' = [form EXCEPT ![c] = IdleForm]
            /\ last' = DoneIssuing(c, OpOf(f), "ok", id,
                           IF f.book = None THEN {}
                           ELSE DeleteCalls(db[id], f.imageUrl, f.fileUrl))
            /\ UNCHANGED <<stored, now>>
    /\ UNCHANGED <<session, asked, page, ops>>

\* confirmDelete over a deleteBook that gives up, with the record in place,
\* when the delete of an asset fails
ConfirmDeleteAssetsFirst(c, book, fails, okImage, okFile) ==
    LET actor == session[c]
        id == book.id
        res == deleteBook(db, actor, id)
        kept == res.outcome = "ok" /\ ~(okImage /\ okFile)
    IN
    /\ Mounted(c)
    /\ book \in Deletable(c)
    /\ ops < MaxOps
    /\ ops' = ops + 1
    /\ IF fails \/ kept \/ res.outcome # "ok"
       THEN /\ dash' = [dash EXCEPT ![c] =
                  [OpenDeleteModal(@, book) EXCEPT !.error = DeleteError]]
            /\ last' = DoneIssuing(c, "delete",
                           IF kept THEN "StorageFailure" ELSE Outcome(res, fails), id,
                           IF kept THEN DeleteCalls(db[id], NoUrl, NoUrl) ELSE {})
            /\ UNCHANGED backend
       ELSE /\ db' = res.db
            /\ assets' = Released(assets, db[id], okImage, okFile)
            /\ \E rows \in Fetched(dash[c], res.db, actor) :
                 dash' = [dash EXCEPT ![c] =
                    [LoadInitialData(@, res.db, actor, rows) EXCEPT
                        !.showDeleteModal = FALSE, !.bookToDelete = None]]
            /\ last' = DoneIssuing(c, "delete", "ok", id,
                                    DeleteCalls(db[id], NoUrl, NoUrl))
            /\ UNCHANGED <<stored, nextId, now, clock>>
    /\ UNCHANGED <<session, asked, page, form>>

\* Delete is clicked for `book` (when its modal is not open yet) and
\* confirmed: bookService.deleteBook, then loadInitialData and the modal is
\* closed; a failure sets the error and leaves the modal open
ConfirmDelete(c, book, fails, okImage, okFile) ==
    LET actor == session[c]
        id == book.id
        res == deleteBook(db, actor, id)
    IN
    /\ Mounted(c)
    /\ book \in Deletable(c)
    /\ ops < MaxOps
    /\ ops' = ops + 1
    /\ IF fails \/ res.outcome # "ok"
       THEN /\ dash' = [dash EXCEPT ![c] =
                  [OpenDeleteModal(@, book) EXCEPT !.error = DeleteError]]
            /\ last' = Done(c, "delete", Outcome(res, fails), id)
            /\ UNCHANGED backend
       ELSE /\ db' = res.db
            /\ assets' = Released(assets, db[id], okImage, okFile)
            /\ \E rows \in Fetched(dash[c], res.db, actor) :
                 dash' = [dash EXCEPT ![c] =
                    [LoadInitialData(@, res.db, actor, rows) EXCEPT
                        !.showDeleteModal = FALSE, !.bookToDelete = None]]
            /\ last' = DoneIssuing(c, "delete", "ok", id,
                                    DeleteCalls(db[id], NoUrl, NoUrl))
            /\ UNCHANGED <<stored, nextId, now, clock>>
    /\ UNCHANGED <<session, asked, page, form>>

\* the session of a client changes: sign-out, or a sign-in in another tab
\* of the same browser
AuthChange(c, u) ==
    /\ u # session[c]
    /\ ops < MaxOps
    /\ ops' = ops + 1
    /\ session' = [session EXCEPT ![c] = u]
    /\ last' = NoOp
    /\ UNCHANGED <<backend, dash, form, asked, page>>

\* the outcomes of the best-effort delete of the asset an update replaces
Released1(c, column) ==
    LET f == form[c]
        url == IF column = "image_url" THEN f.imageUrl ELSE f.fileUrl
    IN  IF /\ f.pc = "write" /\ f.book # None
           /\ The(f.book).id \in DOMAIN db
           /\ db[The(f.book).id][column] \notin {NoUrl, url}
        THEN BOOLEAN ELSE {FALSE}

\* the outcomes of the best-effort delete of an asset of a deleted book
Released2(book, column) ==
    IF book.id \in DOMAIN db /\ db[book.id][column] # NoUrl THEN BOOLEAN ELSE {FALSE}

Rows == UNION {{dash[c].books[i] : i \in DOMAIN dash[c].books} : c \in Clients}

Next ==
    \E c \in Clients :
        \/ HandleBookFormClose(c)
        \/ CancelDelete(c)
        \/ \E book \in {None} \cup {Some(r) : r \in Rows} :
              \E input \in FormInputs \cup
                           {Entered(Prefilled(r), Some(ImageFile), None) : r \in book} :
                HandleSubmit(c, book, input)
        \/ \E ok \in BOOLEAN : \E t \in (IF ok THEN Ticks ELSE {now}) :
              UploadImage(c, ok, t)
        \/ \E ok \in BOOLEAN : \E t \in (IF ok THEN Ticks ELSE {now}) :
              UploadFile(c, ok, t)
        \/ \E fails \in BOOLEAN, t \in Instants(c),
              okImage \in Released1(c, "image_url"), okFile \in Released1(c, "file_url") :
                WriteMetadata(c, fails, t, okImage, okFile)
        \/ \E book \in Rows, fails \in BOOLEAN :
              \E okImage \in Released2(book, "image_url"),
                 okFile \in Released2(book, "file_url") :
                   ConfirmDelete(c, book, fails, okImage, okFile)
        \/ \E u \in Users \cup {NoUser} : AuthChange(c, u)

Spec == Init /\ [][Next]_vars

\* ------------------------------------------------------------- filters
\* what the user typed into the search box, chose in the category select
\* and typed into the Min Price / Max Price boxes
SearchTexts == {<<>>, <<"A">>, <<"b">>}

CategoryOptions == {""} \cup commonCategories

PriceTexts == {<<>>, <<"0">>, <<"5">>, <<"1", "2", ".", "5">>}

\* the filter field the user has asked for by entering `value`: an empty
\* box (the empty text, "All Categories", NaN) asks for nothing, a number
\* asks for that bound
Entry(key, value) ==
    CASE key = "search" -> TextOrUndefined(value)
      [] key = "category" -> OptionOrUndefined(value)
      [] OTHER -> IF isNaN(value) THEN None ELSE Some(value.val)

\* setFilters(next) and the effect on [filters] that follows it: loadBooks
\* fetches the user's rows and filters them with the new filters
SetFilters(c, next) ==
    /\ \E rows \in Fetched([dash[c] EXCEPT !.filters = next], db, session[c]) :
          dash' = [dash EXCEPT ![c] =
                      LoadBooks([@ EXCEPT !.filters = next], session[c], rows)]
    /\ last' = Done(c, "query", "ok", 0)
    /\ ops' = ops + 1
    /\ UNCHANGED <<backend, session, form, page>>

\* handleFilterChange(key, value)
HandleFilterChange(c, key, value) ==
    /\ Mounted(c) /\ NoModal(c)
    /\ ops < MaxOps
    /\ asked' = [asked EXCEPT ![c][key] = Entry(key, value)]
    /\ SetFilters(c, [dash[c].filters EXCEPT ![key] = OrUndefined(key, value)])

\* clearFilters
ClearFilters(c) ==
    /\ Mounted(c) /\ NoModal(c)
    /\ ops < MaxOps
    /\ asked' = [asked EXCEPT ![c] = NoFilters]
    /\ SetFilters(c, NoFilters)

\* the books of a catalog that earlier creates have written: what
\* createBook stored for each (name and description trimmed, the price
\* parsed, the file uploaded under its own key)
ListedData(id) ==
    [name |-> CASE id = 1 -> <<"a">> [] id = 2 -> <<"B">> [] OTHER -> <<"a", "B">>,
     category |-> IF id = 1 THEN "Fiction" ELSE "Drama",
     price |-> CASE id = 1 -> 500 [] id = 2 -> 1250 [] OTHER -> 0,
     description |-> CASE id = 1 -> <<"A", "b">> [] id = 2 -> <<"b">> [] OTHER -> <<"a">>,
     image_url |-> NoUrl, file_url |-> StorageKey(TempId(id), id),
     file_name |-> BookFile.name, file_size |-> BookFile.size]

ListedIds == 1..MaxListed

\* the catalogs: each book created by either user, at an instant not
\* before the instant of the book created before it
Catalogs ==
    {[id \in ListedIds |-> InsertRow(id, ListedData(id), owner[id], t[id])] :
        owner \in [ListedIds -> Users],
        t \in {i \in [ListedIds -> 1..2] : \A a, b \in ListedIds : a <= b => i[a] <= i[b]}}

\* one user is signed in and the dashboard has mounted over a catalog:
\* loadInitialData has run
InitOver(catalogs) ==
    /\ db \in catalogs
    /\ assets = [b \in Buckets |-> IF b = "book-files"
                                  THEN {db[id].file_url : id \in ListedIds} \ {NoUrl}
                                  ELSE {}]
    /\ stored = assets
    /\ nextId = MaxListed + 1
    /\ now = MaxListed
    /\ clock = db[MaxListed].created_at
    /\ session = [c \in Clients |-> IF c = "c1" THEN "u1" ELSE NoUser]
    /\ \E rows \in [Clients -> {<<>>} \cup QueryOwned(db, "u1", NoFilters)] :
          /\ \A c \in Clients : rows[c] \in Fetched(InitDash, db, session[c])
          /\ dash = [c \in Clients |->
                        LoadInitialData(InitDash, db, session[c], rows[c])]
    /\ form = [c \in Clients |-> IdleForm]
    /\ last = NoOp
    /\ asked = [c \in Clients |-> NoFilters]
    /\ page = [c \in Clients |-> NoPage]
    /\ ops = 0

InitQuery == InitOver(Catalogs)

NextQuery ==
    \E c \in Clients :
        \/ \E t \in SearchTexts : HandleFilterChange(c, "search", t)
        \/ \E o \in CategoryOptions : HandleFilterChange(c, "category", o)
        \/ \E t \in PriceTexts : HandleFilterChange(c, "minPrice", parseFloat(t))
        \/ \E t \in PriceTexts : HandleFilterChange(c, "maxPrice", parseFloat(t))
        \/ ClearFilters(c)

SpecQuery == InitQuery /\ [][NextQuery]_vars

\* ------------------------------------------------------------- loads in flight
\* setFilters(next) and the effect on [filters] up to loadBooks' await:
\* the call holds the filters of its render
StartLoadBooks(c, next) ==
    /\ dash' = [dash EXCEPT ![c].filters = next,
                            ![c].pending = @ \cup {next}]
    /\ last' = NoOp
    /\ ops' = ops + 1
    /\ UNCHANGED <<backend, session, form, page>>

\* handleFilterChange(key, value), the load left in flight
FilterChanged(c, key, value) ==
    /\ Mounted(c) /\ NoModal(c)
    /\ ops < MaxOps
    /\ asked' = [asked EXCEPT ![c][key] = Entry(key, value)]
    /\ StartLoadBooks(c, [dash[c].filters EXCEPT ![key] = OrUndefined(key, value)])

\* clearFilters, the load left in flight
FiltersCleared(c) ==
    /\ Mounted(c) /\ NoModal(c)
    /\ ops < MaxOps
    /\ asked' = [asked EXCEPT ![c] = NoFilters]
    /\ StartLoadBooks(c, NoFilters)

\* a loadBooks in flight gets its rows: it filters them with the filters it
\* holds and sets books, whatever the filters are by now
LoadBooksAnswers(c, held) ==
    /\ held \in dash[c].pending
    /\ \E rows \in QueryOwned(db, session[c], held) :
          dash' = [dash EXCEPT ![c] =
                      LoadBooks([@ EXCEPT !.pending = @ \ {held}], session[c], rows)]
    /\ last' = Done(c, "query", "ok", 0)
    /\ UNCHANGED <<backend, session, form, page, asked, ops>>

NextRace ==
    \E c \in Clients :
        \/ \E t \in SearchTexts : FilterChanged(c, "search", t)
        \/ \E o \in CategoryOptions : FilterChanged(c, "category", o)
        \/ \E t \in PriceTexts : FilterChanged(c, "minPrice", parseFloat(t))
        \/ \E t \in PriceTexts : FilterChanged(c, "maxPrice", parseFloat(t))
        \/ FiltersCleared(c)
        \/ \E held \in dash[c].pending : LoadBooksAnswers(c, held)

SpecRace == InitQuery /\ [][NextRace]_vars

\* ------------------------------------------------------------- download page
LoadBookError == "Failed to load book details. Please try again."

\* the book ids a /download/:bookId URL can name: the listed books and one
\* id that no book has had
PageIds == 1..(MaxListed + 1)

\* the route /download/:bookId is opened: DownloadPage mounts with its
\* useState initial values, and the effect on [bookId] starts loadBook
OpenPage(c, id) ==
    /\ ~page[c].loading
    /\ ops < MaxOps
    /\ ops' = ops + 1
    /\ page' = [page EXCEPT ![c] =
                  [open |-> TRUE, bookId |-> id, book |-> None,
                   loading |-> TRUE, downloading |-> FALSE, error |-> ""]]
    /\ last' = NoOp
    /\ UNCHANGED <<backend, session, dash, form, asked>>

\* loadBook once bookService.getBookById has answered: setBook and
\* setError(''), or the catch's setError, and setLoading(false)
LoadBook(c, fails) ==
    LET id == page[c].bookId
        res == getBookById(db, id)
    IN
    /\ page[c].open /\ page[c].loading
    /\ IF res = None \/ fails
       THEN /\ page' = [page EXCEPT ![c].error = LoadBookError,
                                    ![c].loading = FALSE]
            /\ last' = Done(c, "getPublic",
                            IF res = None THEN "NotFound" ELSE "RepositoryFailure", id)
       ELSE /\ page' = [page EXCEPT ![c].book = res,
                                    ![c].error = "",
                                    ![c].loading = FALSE]
            /\ last' = Done(c, "getPublic", "ok", id)
    /\ UNCHANGED <<backend, session, dash, form, asked, ops>>

NoFileError == "No file available for download"
DownloadError == "Failed to download file. Please try again."

\* the Download button is rendered for a loaded book with a file locator,
\* and is disabled while a download is in flight
DownloadButton(p) ==
    /\ p.open /\ ~p.loading /\ p.book # None
    /\ The(p.book).file_url # NoUrl
    /\ ~p.downloading

\* handleDownload's guard: no book, no file locator or no file name
NothingToDownload(p) ==
    \/ p.book = None
    \/ The(p.book).file_url = NoUrl
    \/ The(p.book).file_name = <<>>

\* handleDownload without its guard
HandleDownloadUnguarded(c) ==
    /\ DownloadButton(page[c])
    /\ ops < MaxOps
    /\ ops' = ops + 1
    /\ page' = [page EXCEPT ![c].downloading = TRUE]
    /\ last' = Done(c, "handleDownload", "called", page[c].bookId)
    /\ UNCHANGED <<backend, session, dash, form, asked>>

\* handleDownload up to its await: the guard's setError and return, or
\* setDownloading(true) and the call of storageService.downloadFile
HandleDownload(c) ==
    /\ DownloadButton(page[c])
    /\ ops < MaxOps
    /\ ops' = ops + 1
    /\ IF NothingToDownload(page[c])
       THEN /\ page' = [page EXCEPT ![c].error = NoFileError]
            /\ last' = Done(c, "handleDownload", "refused", page[c].bookId)
       ELSE /\ page' = [page EXCEPT ![c].downloading = TRUE]
            /\ last' = Done(c, "handleDownload", "called", page[c].bookId)
    /\ UNCHANGED <<backend, session, dash, form, asked>>

\* handleDownload once storageService.downloadFile has answered: the
\* catch's setError on a failure, and setDownloading(false)
DownloadDone(c, fails) ==
    /\ page[c].open /\ page[c].downloading
    /\ page' = [page EXCEPT ![c].downloading = FALSE,
                            ![c].error = IF fails THEN DownloadError ELSE @]
    /\ last' = Done(c, "download", IF fails THEN "StorageFailure" ELSE "ok",
                    page[c].bookId)
    /\ UNCHANGED <<backend, session, dash, form, asked, ops>>

\* what DownloadPage renders
View(p) ==
    IF ~p.open THEN "closed"
    ELSE IF p.loading THEN "loading"
    ELSE IF p.book = None THEN "Book not found"
    ELSE "details"

\* the page renders a book without a file (the alert in place of the
\* button) and a file without a name ('Unknown'): the catalogs in which
\* the second book has no file and the last one a file locator and no
\* file name
WithoutFile(row) ==
    [row EXCEPT !.file_url = NoUrl, !.file_name = <<>>, !.file_size = 0]

WithoutFileName(row) == [row EXCEPT !.file_name = <<>>]

PageCatalogs ==
    {[id \in ListedIds |-> CASE id = 2 -> WithoutFile(cat[id])
                              [] id = MaxListed -> WithoutFileName(cat[id])
                              [] OTHER -> cat[id]] : cat \in Catalogs}

InitDownload == InitOver(PageCatalogs)

NextDownload ==
    \E c \in Clients :
        \/ \E id \in PageIds : OpenPage(c, id)
        \/ \E fails \in (IF page[c].bookId \in DOMAIN db THEN BOOLEAN ELSE {FALSE}) :
              LoadBook(c, fails)
        \/ \E book \in Rows, fails \in BOOLEAN :
              \E okImage \in Released2(book, "image_url"),
                 okFile \in Released2(book, "file_url") :
                   ConfirmDelete(c, book, fails, okImage, okFile)
        \/ HandleDownload(c)
        \/ \E fails \in BOOLEAN : DownloadDone(c, fails)

SpecDownload == InitDownload /\ [][NextDownload]_vars

\* ------------------------------------------------------------- editing
\* the book both dashboards list: created earlier, with or without a cover
ListedCovers == {NoUrl, StorageKey(TempId(1), 1)}

\* the same user is signed in on two clients and both dashboards have
\* mounted over a catalog of one book of that user
InitEdit ==
    /\ \E cover \in ListedCovers :
          db = (1 :> InsertRow(1, [ListedData(1) EXCEPT !.image_url = cover], "u1", 1))
    /\ assets = [b \in Buckets |->
                    {db[1][IF b = "book-files" THEN "file_url" ELSE "image_url"]}
                    \ {NoUrl}]
    /\ stored = assets
    /\ nextId = 2
    /\ now = 1
    /\ clock = 1
    /\ session = [c \in Clients |-> "u1"]
    /\ dash = [c \in Clients |-> LoadInitialData(InitDash, db, "u1", <<db[1]>>)]
    /\ form = [c \in Clients |-> IdleForm]
    /\ last = NoOp
    /\ asked = [c \in Clients |-> NoFilters]
    /\ page = [c \in Clients |-> NoPage]
    /\ ops = 0

\* what the user does in the form of a listed book: picks a cover, or a
\* book file, and leaves the fields as filled; or retypes the fields and
\* picks both
EditInputs(r) ==
    {Entered(Prefilled(r), Some(ImageFile), None),
     Entered(Prefilled(r), None, Some(BookFile)),
     Entered(Typed(<<"B">>, "Drama", <<"1", "2", ".", "5">>, <<"b", " ">>),
             Some(ImageFile), Some(BookFile))}

NextEdit ==
    \E c \in Clients :
        \/ \E r \in Rows : \E input \in EditInputs(r) : HandleSubmit(c, Some(r), input)
        \/ \E ok \in BOOLEAN : \E t \in (IF ok THEN Ticks ELSE {now}) :
              UploadImage(c, ok, t)
        \/ \E ok \in BOOLEAN : \E t \in (IF ok THEN Ticks ELSE {now}) :
              UploadFile(c, ok, t)
        \/ \E fails \in BOOLEAN, t \in Instants(c),
              okImage \in Released1(c, "image_url"), okFile \in Released1(c, "file_url") :
                WriteMetadata(c, fails, t, okImage, okFile)

SpecEdit == InitEdit /\ [][NextEdit]_vars

\* the call that handleSubmit of client c awaits (an upload or the metadata
\* write) answers: the promise resolves or rejects
Answer(c) ==
    /\ form[c].pc # "idle"
    /\ \/ \E ok \in BOOLEAN : \E t \in (IF ok THEN Ticks ELSE {now}) :
             UploadImage(c, ok, t)
       \/ \E ok \in BOOLEAN : \E t \in (IF ok THEN Ticks ELSE {now}) :
             UploadFile(c, ok, t)
       \/ \E fails \in BOOLEAN, t \in Instants(c),
             okImage \in Released1(c, "image_url"),
             okFile \in Released1(c, "file_url") :
               WriteMetadata(c, fails, t, okImage, okFile)

\* ------------------------------------------------------------- one form
\* the client whose book form is followed from Submit to the end of
\* handleSubmit
Submitter == "c1"

\* what is entered in the followed form: valid fields with both files
\* picked, or a price the browser refuses
SubmitterInputs ==
    {input \in FormInputs :
        \/ input.imageFile # None /\ input.bookFile # None
        \/ input.formData.price = <<"-", "1">>}

NextForm ==
    \/ HandleBookFormClose(Submitter)
    \/ \E book \in {None} \cup {Some(r) : r \in Rows} :
          \E input \in SubmitterInputs \cup
                       {Entered(Prefilled(r), Some(ImageFile), None) : r \in book} :
            HandleSubmit(Submitter, book, input)
    \/ \E ok \in BOOLEAN : \E t \in (IF ok THEN Ticks ELSE {now}) :
          UploadImage(Submitter, ok, t)
    \/ \E ok \in BOOLEAN : \E t \in (IF ok THEN Ticks ELSE {now}) :
          UploadFile(Submitter, ok, t)
    \/ \E fails \in BOOLEAN, t \in Instants(Submitter),
          okImage \in Released1(Submitter, "image_url"),
          okFile \in Released1(Submitter, "file_url") :
            WriteMetadata(Submitter, fails, t, okImage, okFile)

\* every call that handleSubmit awaits answers in the end, and the event
\* loop then runs the continuation of handleSubmit
SpecForm == Init /\ [][NextForm]_vars /\ WF_vars(Answer(Submitter))

\* ------------------------------------------------------------- claims
Referenced(url, bucket) == url # NoUrl => url \in stored[bucket]

\* C1: every locator a stored book references (cover or file) is one a
\* bucket has stored, and a submit that reached its metadata write has
\* stored every asset it was given before
C1_AssetsStoredBeforeMetadata ==
    /\ \A id \in DOMAIN db :
          /\ Referenced(db[id].image_url, "book-images")
          /\ Referenced(db[id].file_url, "book-files")
    /\ \A c \in Clients :
          form[c].pc = "write" =>
             /\ form[c].imageFile # None =>
                   form[c].imageUrl # NoUrl /\ form[c].imageUrl \in stored["book-images"]
             /\ form[c].bookFile # None =>
                   form[c].fileUrl # NoUrl /\ form[c].fileUrl \in stored["book-files"]

\* an update that uploaded a new cover and a new file has been written
C1_Witness ==
    /\ last.op = "update" /\ last.outcome = "ok"
    /\ db[last.id].image_url \in stored["book-images"]
    /\ db[last.id].file_url \in stored["book-files"]
    /\ Cardinality(stored["book-images"]) = 2

UploadStep(c) == form[c].pc \in {"image", "file"} /\ form'[c].pc # form[c].pc

\* C2: a step of the upload phase of a create or an update never changes
\* the catalog, and an upload that fails ends the submit with the error:
\* no metadata write follows it
C2_FailedUploadLeavesCatalog ==
    [][\A c \in Clients :
          UploadStep(c) =>
             /\ db' = db
             /\ last'.outcome = "StorageFailure" =>
                   /\ form'[c].pc = "idle"
                   /\ ~form'[c].loading
                   /\ form'[c].error = "StorageFailure"]_vars

\* the file upload of an update failed after its cover upload succeeded:
\* the new cover is stored and the book still has the cover it had
C2_Witness ==
    /\ last.op = "update" /\ last.outcome = "StorageFailure"
    /\ last.id \in DOMAIN db
    /\ \E c \in Clients :
          /\ last.client = c
          /\ form[c].imageFile # None /\ form[c].bookFile # None
    /\ \E k \in assets["book-images"] :
          k.kind = "book" /\ k.n = last.id /\ k # db[last.id].image_url

\* the step is the service call of an update or a delete by client c
ServiceStep(c) ==
    /\ last'.client = c
    /\ \/ last'.op = "delete"
       \/ last'.op = "update" /\ form[c].pc = "write"

\* C3: an update or a delete of a book by an actor who is not its owner
\* fails with Forbidden and changes neither the catalog nor the assets
C3_NonOwnerForbidden ==
    [][\A c \in Clients :
          (/\ ServiceStep(c)
           /\ session[c] \in Users
           /\ last'.id \in DOMAIN db
           /\ db[last'.id].user_id # session[c])
          => /\ last'.outcome = "Forbidden"
             /\ db' = db
             /\ assets' = assets]_vars

\* an update by another actor than the owner was refused
C3_Witness ==
    /\ last.op = "update" /\ last.outcome = "Forbidden"
    /\ last.id \in DOMAIN db
    /\ db[last.id].user_id # session[last.client]

\* C4: no step changes the user_id of a book
C4_OwnerImmutable ==
    [][\A id \in DOMAIN db \cap DOMAIN db' : db'[id].user_id = db[id].user_id]_vars

\* a book was updated and is owned by the actor who created it
C4_Witness ==
    /\ last.op = "update" /\ last.outcome = "ok"
    /\ db[last.id].updated_at > db[last.id].created_at
    /\ db[last.id].user_id = session[last.client]

\* the step is a create by client c that succeeds
CreateStep(c) ==
    /\ form[c].pc = "write" /\ form[c].book = None
    /\ last' = Done(c, "create", "ok", nextId)

\* what getPublic returns for the book of a create, compared with what was
\* entered: the name and the description as given by NameOf and TextOf
RoundTrip(c, NameOf(_), TextOf(_)) ==
    LET got == getBookById(db', nextId)
        fd == form[c].formData
    IN  /\ got # None
        /\ The(got).name = NameOf(fd.name)
        /\ The(got).category = fd.category
        /\ The(got).price = parseFloat(fd.price).val
        /\ The(got).description = TextOf(fd.description)
        /\ form[c].bookFile # None =>
              /\ The(got).file_name = The(form[c].bookFile).name
              /\ The(got).file_size = The(form[c].bookFile).size

AsTyped(text) == text

\* C5 as stated: after a create, getPublic of the new id returns the name,
\* category, price, description and file name/size that were entered
C5_RoundTripAsEntered ==
    [][\A c \in Clients : CreateStep(c) => RoundTrip(c, AsTyped, AsTyped)]_vars

\* C5: after a create, getPublic of the new id returns the category, the
\* price and the file name/size that were entered, and the name and the
\* description that were entered with the white space around them removed
C5_RoundTripTrimmed ==
    [][\A c \in Clients : CreateStep(c) => RoundTrip(c, trim, trim)]_vars

\* a book was created from a name typed with a leading blank
C5_Witness ==
    /\ last.op = "create" /\ last.outcome = "ok"
    /\ db[last.id].name = <<"a">>
    /\ db[last.id].file_name = BookFile.name

RECURSIVE SumPriceOver(_, _)
SumPriceOver(d, S) ==
    IF S = {} THEN 0
    ELSE LET id == CHOOSE x \in S : TRUE
         IN  d[id].price + SumPriceOver(d, S \ {id})

\* the step completes a save or a delete of client c
SavedOrDeleted(c) == last'.client = c /\ last'.outcome = "ok"

Shown(c) == {dash[c].books[i].id : i \in DOMAIN dash[c].books}

\* the scope OwnedBy(the user of client c)
Scope(c) == {id \in DOMAIN db : db[id].user_id = session[c]}

\* the last step was a query of client c
Queried(c) == last.op = "query" /\ last.client = c

\* C7 as stated: when the user has entered a minimum a and a maximum b
\* (and no search and no category), the result is exactly the books of the
\* scope with a <= price <= b, also for a = 0 and b = 0
C7_PriceRangeInclusive ==
    \A c \in Clients :
        (/\ asked[c].minPrice # None /\ asked[c].maxPrice # None
         /\ asked[c].search = None /\ asked[c].category = None)
        => Shown(c) =
             {id \in Scope(c) :
                 /\ The(asked[c].minPrice) <= db[id].price
                 /\ db[id].price <= The(asked[c].maxPrice)}

\* t occurs in s when the case of letters is ignored
ContainsIgnoringCase(s, t) ==
    \E i \in 0..(Len(s) - Len(t)) :
        \A k \in 1..Len(t) : LowerChar(s[i + k]) = LowerChar(t[k])

\* the book satisfies every predicate the filter provides
Satisfies(book, f) ==
    /\ f.search # None =>
          \/ ContainsIgnoringCase(book.name, The(f.search))
          \/ ContainsIgnoringCase(book.description, The(f.search))
    /\ f.category # None => book.category = The(f.category)
    /\ f.minPrice # None => book.price >= The(f.minPrice)
    /\ f.maxPrice # None => book.price <= The(f.maxPrice)

\* C8: the result of a query is exactly the books of the scope that
\* satisfy all the predicates of the filter at once, each once and as the
\* catalog holds it; a field that is absent removes no book, and the filter
\* without fields returns all of the scope
C8_AllProvidedPredicates ==
    \A c \in Clients :
        /\ Shown(c) = {id \in Scope(c) : Satisfies(db[id], dash[c].filters)}
        /\ Len(dash[c].books) = Cardinality(Shown(c))
        /\ \A i \in DOMAIN dash[c].books : dash[c].books[i] = db[dash[c].books[i].id]
        /\ \A key \in DOMAIN NoFilters :
              dash[c].filters[key] = None =>
                 \A id \in Scope(c) :
                    Satisfies(db[id], [NoFilters EXCEPT ![key] = dash[c].filters[key]])
        /\ dash[c].filters = NoFilters => Shown(c) = Scope(c)

\* a query with a search, a category and a maximum price returned some of
\* the books of its scope: one that matches the search by its description
\* only is among them, and one that fails a single predicate is not
C8_Witness ==
    \E c \in Clients :
        /\ Queried(c)
        /\ dash[c].filters.search # None
        /\ dash[c].filters.category # None
        /\ dash[c].filters.maxPrice # None
        /\ Shown(c) # {} /\ Shown(c) # Scope(c)
        /\ \E id \in Scope(c) \ Shown(c) :
              /\ db[id].category = The(dash[c].filters.category)
              /\ db[id].price > The(dash[c].filters.maxPrice)

\* C9 as stated: the result is ordered by created_at descending, and books
\* with equal created_at are in ascending order of id
C9_NewestFirstTiesById ==
    \A c \in Clients :
        \A i, j \in DOMAIN dash[c].books :
            i < j =>
               \/ dash[c].books[i].created_at > dash[c].books[j].created_at
               \/ /\ dash[c].books[i].created_at = dash[c].books[j].created_at
                  /\ dash[c].books[i].id < dash[c].books[j].id

\* C10: a query of the dashboard returns no book of another user and,
\* without filter fields, every book of its user; with filter fields, every
\* book of its user that satisfies them; the public scope lists every book
\* of the catalog whoever owns it
C10_OwnedScopeOnlyOwner ==
    /\ \A c \in Clients :
          /\ \A i \in DOMAIN dash[c].books : dash[c].books[i].user_id = session[c]
          /\ \A id \in DOMAIN db :
                (db[id].user_id = session[c] /\ MatchesFilters(db[id], dash[c].filters))
                => id \in Shown(c)
    /\ \A rows \in QueryPublic(db, NoFilters) :
          {rows[i].id : i \in DOMAIN rows} = DOMAIN db

\* a query without filter fields returned the books of its user, which are
\* some but not all of the books of the catalog
C10_Witness ==
    \E c \in Clients :
        /\ Queried(c)
        /\ dash[c].filters = NoFilters
        /\ Shown(c) = Scope(c)
        /\ Scope(c) # {} /\ Scope(c) # DOMAIN db

\* the step is a press of Submit by client c in the form for a new book
\* with no book file picked
CreateWithoutFile(c) ==
    /\ ops' = ops + 1
    /\ dash'[c].showBookForm /\ dash'[c].editingBook = None
    /\ form'[c].bookFile = None
    /\ \/ last'.client = c /\ last'.op = "create"
       \/ form'[c].pc # form[c].pc

\* C11: a create without a book file fails with a validation error; it
\* uploads no asset and inserts no record, and no stored book lacks its
\* file asset
C11_CreateNeedsFile ==
    /\ [](\A id \in DOMAIN db : db[id].file_url # NoUrl)
    /\ [][\A c \in Clients :
            CreateWithoutFile(c) =>
               /\ last' = Done(c, "create", "ValidationError", 0)
               /\ form'[c].pc = "idle"
               /\ UNCHANGED <<db, assets, stored>>]_vars

\* a create whose fields are all valid, with a cover image and without a
\* book file, has failed
C11_Witness ==
    \E c \in Clients :
        /\ last = Done(c, "create", "ValidationError", 0)
        /\ form[c].bookFile = None /\ form[c].imageFile # None
        /\ checkValidityFileOptional(None,
              Entered(form[c].formData, form[c].imageFile, None))
        /\ dash[c].editingBook = None

\* the book has no file asset: locator, file name and size are all absent
NoFileAsset(row) ==
    row.file_url = NoUrl /\ row.file_name = <<>> /\ row.file_size = 0

\* the book has a file asset with its locator, file name and size
WholeFileAsset(row) ==
    row.file_url # NoUrl /\ row.file_name # <<>> /\ row.file_size > 0

FieldsValid(name, category, price, description) ==
    /\ name # <<>> /\ Len(name) <= NameMaxLength
    /\ category \in commonCategories
    /\ price >= 0 /\ price <= PriceMax
    /\ Len(description) <= DescriptionMaxLength

\* the fields a submit of the form asks the service to store satisfy the
\* four constraints
RequestValid(fd) ==
    /\ ~isNaN(parseFloat(fd.price))
    /\ FieldsValid(trim(fd.name), fd.category, parseFloat(fd.price).val,
                   trim(fd.description))

\* the step is a press of Submit by client c
SubmitStep(c) ==
    /\ ops' = ops + 1
    /\ dash'[c].showBookForm
    /\ \/ last'.client = c /\ last'.op \in {"create", "update"}
       \/ form'[c].pc # form[c].pc

\* C13: a create or an update whose fields violate a constraint (name
\* empty or longer than 255, category outside the set, price negative or
\* above 99999.99, description longer than 1000) fails with a validation
\* error before any upload and any write, and every stored book satisfies
\* the four constraints
C13_InvalidFieldsRejected ==
    /\ [](\A id \in DOMAIN db :
             FieldsValid(db[id].name, db[id].category, db[id].price,
                         db[id].description))
    /\ [][\A c \in Clients :
            (SubmitStep(c) /\ ~RequestValid(form'[c].formData)) =>
               /\ last'.client = c /\ last'.outcome = "ValidationError"
               /\ form'[c].pc = "idle"
               /\ UNCHANGED <<db, assets, stored>>]_vars

\* the step is the successful metadata write of an update by client c that
\* supplied a new cover, no new book file, and the fields as the form
\* filled them
CoverOnlyWrite(c) ==
    /\ form[c].pc = "write" /\ form[c].book # None
    /\ form[c].imageFile # None /\ form[c].bookFile = None
    /\ form[c].formData = Prefilled(The(form[c].book))
    /\ last'.client = c /\ last'.op = "update" /\ last'.outcome = "ok"

\* C14: an update that supplies a new cover and no new book file leaves
\* the file asset (locator, file name, size), the name, the category, the
\* price, the description, the owner and createdAt of the stored book
\* unchanged, replaces the cover locator, and advances updatedAt
C14_CoverOnlyFrame ==
    [][\A c \in Clients :
        CoverOnlyWrite(c) =>
           LET old == db[last'.id]
               new == db'[last'.id]
           IN  /\ new.file_url = old.file_url
               /\ new.file_name = old.file_name
               /\ new.file_size = old.file_size
               /\ new.name = old.name
               /\ new.category = old.category
               /\ new.price = old.price
               /\ new.description = old.description
               /\ new.user_id = old.user_id
               /\ new.created_at = old.created_at
               /\ new.image_url = form[c].imageUrl
               /\ new.updated_at > old.updated_at]_vars

\* the step is the metadata write of an update by client c, answered
UpdateWrite(c) ==
    /\ form[c].pc = "write" /\ form[c].book # None
    /\ last'.client = c /\ last'.op = "update"

\* the delete call for the asset a column of a row references
CallFor(row, column) ==
    [bucket |-> IF column = "image_url" THEN "book-images" ELSE "book-files",
     key |-> row[column]]

\* C15: when an update replaces the cover or the book file of a book, a
\* delete of the asset the book referenced before is issued for the old
\* locator, and the metadata write of the update succeeds whether that
\* delete succeeds or fails
C15_OldAssetDeleteIssued ==
    [][\A c \in Clients :
        UpdateWrite(c) =>
           LET id == last'.id
           IN  /\ last'.outcome = "ok" =>
                    \A column \in {"image_url", "file_url"} :
                       (db[id][column] # NoUrl /\ db'[id][column] # db[id][column])
                       <=> CallFor(db[id], column) \in last'.issued
               /\ last'.issued # {} =>
                    /\ last'.outcome = "ok"
                    /\ db'[id].image_url = form[c].imageUrl
                    /\ db'[id].file_url = form[c].fileUrl
                    /\ db'[id].updated_at > db[id].updated_at]_vars

\* an update has replaced the cover of a book: the delete of the old cover
\* was issued and failed, the old cover is still stored, and the book
\* references the new cover
C15_Witness ==
    /\ last.op = "update" /\ last.outcome = "ok"
    /\ \E call \in last.issued :
          /\ call.bucket = "book-images"
          /\ call.key \in assets["book-images"]
          /\ db[last.id].image_url \notin {NoUrl, call.key}
          /\ db[last.id].image_url \in assets["book-images"]

\* the step is the answer to the delete, by its owner c, of a book that
\* has a cover and a file, the repository being up
OwnerDelete(c) ==
    /\ last'.client = c /\ last'.op = "delete"
    /\ last'.outcome # "RepositoryFailure"
    /\ last'.id \in DOMAIN db
    /\ db[last'.id].user_id = session[c]
    /\ db[last'.id].image_url # NoUrl /\ db[last'.id].file_url # NoUrl

\* C16: the delete, by its owner, of a book with a cover and a file issues
\* exactly two asset deletes, one for the cover in the namespace of the
\* images and one for the file in the namespace of the files, and removes
\* the record whether both asset deletes succeed, one fails or both fail
C16_DeleteIssuesTwoCalls ==
    [][\A c \in Clients :
        OwnerDelete(c) =>
           /\ last'.outcome = "ok"
           /\ last'.id \notin DOMAIN db'
           /\ last'.issued = {CallFor(db[last'.id], "image_url"),
                              CallFor(db[last'.id], "file_url")}
           /\ Cardinality(last'.issued) = 2]_vars

\* a book with a cover and a file has been deleted by its owner: both asset
\* deletes were issued, both failed, and the record is gone
C16_Witness ==
    /\ last.op = "delete" /\ last.outcome = "ok"
    /\ last.id \notin DOMAIN db
    /\ Cardinality(last.issued) = 2
    /\ \A call \in last.issued : call.key \in assets[call.bucket]

\* C17: the metadata write of an update sets the record to the complete
\* result of that update, fields and both asset locators, also when the
\* update of another client on the same book is in flight: after two
\* concurrent updates the record has the locators of the last writer, not
\* a merge of the two
C17_LastWriterWins ==
    [][\A c \in Clients :
        (UpdateWrite(c) /\ last'.outcome = "ok") =>
           /\ db'[last'.id] = UpdateRow(db[last'.id], UpdateData(form[c]), clock')
           /\ db'[last'.id].image_url = form[c].imageUrl
           /\ db'[last'.id].file_url = form[c].fileUrl
           /\ db'[last'.id].file_name = form[c].fileName
           /\ db'[last'.id].file_size = form[c].fileSize]_vars

\* two updates of the same book run concurrently, one with a new cover
\* only, the other with a new file only: the write of the first has been
\* applied and set the cover, while the second, begun from the book as it
\* was before, has uploaded its file and is about to write
C17_Witness ==
    \E c, o \in Clients :
        /\ last.client = c /\ last.op = "update" /\ last.outcome = "ok"
        /\ db[last.id].image_url.kind = "book"
        /\ o # c
        /\ form[o].pc = "write" /\ form[o].book # None
        /\ The(form[o].book).id = last.id
        /\ form[o].imageFile = None /\ form[o].bookFile # None
        /\ form[o].imageUrl # db[last.id].image_url
        /\ form[o].fileUrl # db[last.id].file_url

\* the step is an upload by client c that stored its bytes
ImageUploaded(c) == form[c].pc = "image" /\ form'[c].pc \notin {"image", "idle"}

FileUploaded(c) == form[c].pc = "file" /\ form'[c].pc = "write"

\* C18: within a namespace two distinct uploads never get the same storage
\* key, also not two uploads for the same book id, or for the temporary ids
\* of two new books, at the same timestamp: no upload stores its bytes
\* under a key an earlier upload was stored under
C18_UploadKeysDistinct ==
    [][\A c \in Clients :
        /\ ImageUploaded(c) => form'[c].imageUrl \notin stored["book-images"]
        /\ FileUploaded(c) => form'[c].fileUrl \notin stored["book-files"]]_vars

\* the step is the answer to the loadBook of the download page of client c
LoadStep(c) == page[c].loading /\ ~page'[c].loading

\* C19: getPublic answers with the stored book for every id that exists,
\* for any client, signed in or not, and whoever owns the book, and with
\* NotFound for an id that was never created or has been deleted; the
\* download page shows 'Book not found' exactly when the load has ended
\* without a book
C19_PublicLookup ==
    [][\A c \in Clients :
        LoadStep(c) =>
           LET id == page[c].bookId
           IN  /\ last'.client = c /\ last'.op = "getPublic" /\ last'.id = id
               /\ last'.outcome \in {"ok", "NotFound", "RepositoryFailure"}
               /\ id \notin DOMAIN db <=> last'.outcome = "NotFound"
               /\ last'.outcome = "ok" <=>
                     (id \in DOMAIN db /\ page'[c].book = Some(db[id]))
               /\ last'.outcome # "ok" <=> page'[c].book = None
               /\ View(page'[c]) = "Book not found" <=> last'.outcome # "ok"]_vars

\* a client that is not signed in has loaded a book, which has an owner,
\* and its page shows the book; the other client has asked for a book that
\* has been deleted and its page shows 'Book not found'
C19_Witness ==
    \E c, o \in Clients :
        /\ session[c] = NoUser
        /\ View(page[c]) = "details"
        /\ page[c].bookId \in DOMAIN db
        /\ page[c].book = Some(db[page[c].bookId])
        /\ db[page[c].bookId].user_id \in Users
        /\ last = Done(o, "getPublic", "NotFound", page[o].bookId)
        /\ page[o].bookId \in ListedIds \ DOMAIN db
        /\ View(page[o]) = "Book not found"

\* the step is the answer to the createBook of client c
CreateWrite(c) ==
    /\ form[c].pc = "write" /\ form[c].book = None
    /\ last'.client = c /\ last'.op = "create"

\* C20: no book is created without an authenticated actor: a create with
\* no current actor fails with Unauthenticated, has uploaded nothing and
\* inserts nothing, and the owner of every stored book is the
\* authenticated actor that created it
C20_CreateNeedsActor ==
    /\ [](\A id \in DOMAIN db : db[id].user_id \in Users)
    /\ [][\A c \in Clients :
            CreateWrite(c) =>
               /\ session[c] = NoUser =>
                    /\ last'.outcome = "Unauthenticated"
                    /\ db' = db
                    /\ form[c].imageUrl = NoUrl /\ form[c].fileUrl = NoUrl
               /\ last'.outcome = "ok" =>
                    /\ session[c] \in Users
                    /\ db'[last'.id].user_id = session[c]
                    /\ last'.id \notin DOMAIN db]_vars

\* the ids of the books the dashboard of client c lists
ListedBy(dc) == {dc.books[i].id : i \in DOMAIN dc.books}

\* the ids the repository has assigned and whose books have been deleted
DeletedIds == {id \in 1..(nextId - 1) : id \notin DOMAIN db}

\* C21: book ids are unique and never reused: every stored book is stored
\* under its own id, an id the repository has assigned; no step changes the
\* id of a stored book; and the id of a deleted book is not stored again,
\* not returned by getPublic and not in the answer to any query of a
\* dashboard, also after later creates
C21_IdsNeverReused ==
    /\ [](\A id \in DOMAIN db : db[id].id = id /\ id < nextId)
    /\ [][/\ \A id \in DOMAIN db \cap DOMAIN db' : db'[id].id = db[id].id
          /\ nextId' >= nextId
          /\ \A id \in DeletedIds :
                /\ id \notin DOMAIN db'
                /\ getBookById(db', id) = None
                /\ \A c \in Clients :
                      dash'[c].books # dash[c].books => id \notin ListedBy(dash'[c])]_vars

\* a book was created and deleted, and a book created after that has got
\* an id of its own
C21_Witness ==
    /\ last.op = "create" /\ last.outcome = "ok"
    /\ last.id \in DOMAIN db
    /\ DeletedIds # {}
    /\ \A id \in DeletedIds : id < last.id
    /\ \E c \in Clients : last.id \in ListedBy(dash[c])

\* how far a submit has come: the cover upload, the file upload, the
\* metadata write, the end
PcRank(pc) ==
    CASE pc = "image" -> 1 [] pc = "file" -> 2 [] pc = "write" -> 3 [] OTHER -> 4

\* the step is a call of the submit of client c in flight (an upload or the
\* metadata write) that has answered
CallAnswered(c) ==
    /\ form[c].pc # "idle"
    /\ \/ form'[c].pc # form[c].pc
       \/ last'.client = c /\ last'.op \in {"create", "update"} /\ last' # last

\* C22: a failure of an upload or of the metadata write is reported to the
\* caller and is not retried: the submit ends with the failure and its
\* message, and a submit issues at most one upload of the cover, one of
\* the file and one metadata write, each call moving the submit on
C22_FailuresReportedNoRetry ==
    [][\A c \in Clients :
        CallAnswered(c) =>
           /\ PcRank(form'[c].pc) > PcRank(form[c].pc)
           /\ (last'.client = c /\ last'.outcome # "ok") =>
                 /\ last'.outcome \in Failures
                 /\ form'[c].pc = "idle" /\ ~form'[c].loading
                 /\ form'[c].error = last'.outcome
                 /\ db' = db
           /\ form'[c].pc = "idle" => last'.client = c]_vars

\* the metadata write of a create has failed after its file was uploaded:
\* the submit has ended with the failure, the file is stored and no book
\* is
C22_Witness ==
    \E c \in Clients :
        /\ last = Done(c, "create", "RepositoryFailure", 0)
        /\ form[c].pc = "idle" /\ ~form[c].loading
        /\ form[c].error = "RepositoryFailure"
        /\ stored["book-files"] # {}
        /\ db = <<>>

\* a locator no upload has stored
NeverStored == StorageKey(TempId(0), 0)

FileAsset(row) == <<row.file_url, row.file_name, row.file_size>>

\* C24: a book that has a file asset has one after every later update: an
\* update without a new book file writes back the file locator, name and
\* size the stored book has, and an update with a new book file replaces
\* the three together by those of its upload
C24_FileAssetKept ==
    [][\A c \in Clients :
        (UpdateWrite(c) /\ last'.outcome = "ok" /\ db[last'.id].file_url # NoUrl) =>
           /\ db'[last'.id].file_url # NoUrl
           /\ form[c].bookFile = None =>
                 FileAsset(db'[last'.id]) = FileAsset(db[last'.id])
           /\ form[c].bookFile # None =>
                 FileAsset(db'[last'.id]) =
                    <<form[c].fileUrl, The(form[c].bookFile).name,
                      The(form[c].bookFile).size>>]_vars

\* the step is handleDownload of client c reaching its guard
HandleDownloadStep(c) ==
    ops' = ops + 1 /\ last'.client = c /\ last'.op = "handleDownload"

\* the step is the answer of the storage download that client c started
DownloadStep(c) ==
    last' # last /\ last'.client = c /\ last'.op = "download"

\* C25: handleDownload does not call the storage download when the loaded
\* book is missing, has no file locator or has no file name: it sets the
\* error 'No file available for download' and the downloading flag stays
\* false; a download that is started keeps the downloading flag true until
\* it succeeds or fails, and the flag is false after that
C25_DownloadGuard ==
    /\ [](\A c \in Clients :
            page[c].downloading => page[c].open /\ ~NothingToDownload(page[c]))
    /\ [][\A c \in Clients :
            /\ HandleDownloadStep(c) =>
                  /\ ~page[c].downloading
                  /\ IF NothingToDownload(page[c])
                     THEN /\ last'.outcome = "refused"
                          /\ page'[c].error = NoFileError
                          /\ ~page'[c].downloading
                     ELSE /\ last'.outcome = "called"
                          /\ page'[c].downloading
                          /\ page'[c].error = page[c].error
            /\ (~page[c].downloading /\ page'[c].downloading) =>
                  HandleDownloadStep(c) /\ last'.outcome = "called"
            /\ (page[c].downloading /\ ~page'[c].downloading) =>
                  \/ DownloadStep(c) /\ last'.outcome \in {"ok", "StorageFailure"}
                  \/ page'[c].loading
            /\ DownloadStep(c) =>
                  /\ page[c].downloading /\ ~page'[c].downloading
                  /\ last'.outcome = "StorageFailure" => page'[c].error = DownloadError
                  /\ last'.outcome = "ok" => page'[c].error = page[c].error]_vars

\* a download page has loaded a book with a file locator and no file name,
\* its Download button has been pressed, and the page shows 'No file
\* available for download' with no download in flight
C25_Witness ==
    \E c \in Clients :
        /\ last = Done(c, "handleDownload", "refused", page[c].bookId)
        /\ page[c].book # None
        /\ The(page[c].book).file_url # NoUrl
        /\ The(page[c].book).file_name = <<>>
        /\ page[c].error = NoFileError
        /\ ~page[c].downloading

\* C26: a form has at most one submission in flight: the loading flag is
\* true exactly while a handleSubmit is between its start and its end, no
\* submission starts while it is true (the submit button is disabled) and
\* the one in flight keeps its book and its inputs, and every submission
\* ends with the loading flag false, whether an upload or the metadata
\* write failed or all succeeded
C26_OneSubmissionInFlight ==
    /\ [](\A c \in Clients : form[c].loading <=> form[c].pc # "idle")
    /\ [][\A c \in Clients :
            /\ (form[c].pc = "idle" /\ form'[c].pc # "idle") =>
                  ~form[c].loading /\ form'[c].loading /\ ops' = ops + 1
            /\ (form[c].loading /\ form'[c].loading) =>
                  /\ ops' = ops \/ form'[c] = form[c]
                  /\ form'[c].book = form[c].book
                  /\ form'[c].formData = form[c].formData
                  /\ form'[c].imageFile = form[c].imageFile
                  /\ form'[c].bookFile = form[c].bookFile
                  /\ PcRank(form'[c].pc) >= PcRank(form[c].pc)
            /\ (form[c].loading /\ ~form'[c].loading) =>
                  last'.client = c /\ last'.op \in {"create", "update"}]_vars
    /\ \A c \in Clients : form[c].loading ~> ~form[c].loading

\* a book has been created, and a later submission of the same form, an
\* update of that book, has ended in a failure of an upload: the loading
\* flag is false again
C26_Witness ==
    \E c \in Clients :
        /\ last = Done(c, "update", "StorageFailure", 1)
        /\ 1 \in DOMAIN db
        /\ ~form[c].loading /\ form[c].error = "StorageFailure"
        /\ dash[c].showBookForm

\* the step ends the handleSubmit of client c
SubmitEnds(c) == form[c].pc # "idle" /\ form'[c].pc = "idle"

\* every upload that the submit f asked for has stored its asset under a
\* key of the submit
UploadsDone(f) ==
    /\ f.imageFile # None =>
          /\ f.imageUrl \in stored["book-images"]
          /\ \E t \in 0..MaxTime : f.imageUrl = StorageKey(f.tempId, t)
    /\ f.bookFile # None =>
          /\ f.fileUrl \in stored["book-files"]
          /\ \E t \in 0..MaxTime : f.fileUrl = StorageKey(f.tempId, t)

\* onSave has been called for client c: the dashboard is reloaded over the
\* table as the step leaves it and the form is closed
Saved(c) ==
    \E rows \in Fetched(dash[c], db', session[c]) :
        dash'[c] = HandleBookSaved(dash[c], db', session[c], rows)

C28_LatestFiltersShown ==
    \A c \in Clients :
        (Mounted(c) /\ dash[c].pending = {}) =>
            dash[c].books \in QueryOwned(db, session[c], dash[c].filters)

====
